---- MODULE Spec2Model ----
(***************************************************************************)
(* Session registry and request router of src/server.ts.                   *)
(*                                                                         *)
(* The module-level map `transports` (server.ts:173) is the only shared    *)
(* state.  Each HTTP request is a handler invocation that runs from one    *)
(* await point to the next as one atomic step (single-threaded event       *)
(* loop); handlers of different requests interleave at their awaits.       *)
(* StreamableHTTPServerTransport is library code: it is modelled by what   *)
(* the handlers observe of it (sessionId, the two callbacks, the response  *)
(* it writes, a thrown exception).                                         *)
(***************************************************************************)
EXTENDS Integers, FiniteSets, Sequences, TLC

\* ---- bounds -------------------------------------------------------------
MaxReq == 2          \* request handlers in flight at the same time
MaxTransports == 2   \* transport instances constructed in one behaviour
MaxIds == 2          \* session identifiers the generator can hand out
MaxLines == 3        \* lines of text a completion returns

\* ---- values -------------------------------------------------------------
NoHeader == 0        \* req.headers["mcp-session-id"] is undefined
UnknownId == -1      \* a header value that is no key of anything
ProtoKey == -2       \* a header value naming a property every plain object
                     \* inherits ("constructor", "toString", "__proto__")
NoTransport == 0     \* undefined
ProtoObject == -1    \* the inherited value found under ProtoKey: truthy, and
                     \* not a transport (it has no handleRequest)
SessionErrorCode == -32000
InternalErrorCode == -32001
NoCode == 0          \* the response body carries no error code

Reqs == 1..MaxReq
Transports == 1..MaxTransports
Ids == 1..MaxIds
Methods == {"POST", "GET", "DELETE"}
Bodies == {"init", "other"}

NoReq == [method |-> "none", header |-> NoHeader, body |-> "other", accept |-> TRUE]
NoResp == [status |-> 0, code |-> NoCode, kind |-> "none", sid |-> 0]

VARIABLES
  transports,   \* server.ts:173  [Ids -> Transports \cup {NoTransport}]
  tCreated,     \* transport instances constructed so far
  tConnected,   \* instances server.connect has completed for
  tInit,        \* instances whose initialization handshake completed
  tSid,         \* transport.sessionId (0: undefined)
  tClosed,      \* instances that have signalled closure
  issued,       \* identifiers sessionIdGenerator has returned
  forwarded,    \* instances transport.handleRequest has been called on
  regCount,     \* how often each instance was stored into transports
  pc,           \* position of each request handler
  req,          \* the request a handler is serving
  resp,         \* the response written for it
  rTransport,   \* the handler's local variable `transport`
  exc,          \* whether an exception was thrown while serving it
  cfg,          \* server.ts:11-13  which environment variables are set
  rawInput,     \* the arguments of one SaveMeeting call
  tool          \* the SaveMeeting handler serving it: position, locals, the
                \* outbound calls made and the value returned

sessVars == <<transports, tCreated, tConnected, tInit, tSid, tClosed, issued,
              forwarded, regCount, pc, req, resp, rTransport, exc>>

toolVars == <<cfg, rawInput, tool>>

vars == <<sessVars, toolVars>>

tvars == <<tCreated, tConnected, tInit, tSid, tClosed, issued, forwarded,
           regCount>>

Max(S) == CHOOSE x \in S : \A y \in S : y <= x
Min(S) == CHOOSE x \in S : \A y \in S : x <= y

\* ---- the registry (server.ts:173) ------------------------------------------

\* transports[sessionId] on a plain object literal: own keys are the
\* registered identifiers, and a key Object.prototype defines resolves to the
\* inherited value.
Lookup(reg, sid) ==
  IF sid \in Ids THEN reg[sid]
  ELSE IF sid = ProtoKey THEN ProtoObject
  ELSE NoTransport

\* JavaScript truthiness of a looked-up value
Truthy(v) == v # NoTransport

\* a generator that returns the same identifier on every call
RandomUUID_Constant == {Min(Ids)}

\* sessionIdGenerator: () => randomUUID()  -- a version-4 UUID; the model takes
\* it to be an identifier that was not returned before.
RandomUUID ==
  IF Ids \ issued = {} THEN {} ELSE {Min(Ids \ issued)}

\* `transport` declared once at module level instead of per invocation: the
\* callbacks see the instance constructed last
ClosureTransport_Shared(t) == Max(tCreated)

\* the variable `transport` the two callbacks of instance t close over: the
\* `let transport` of the handler invocation that constructed t
ClosureTransport(t) == t

\* onsessioninitialized (server.ts:185-189)
OnSessionInitialized(reg, newSessionId, t) ==
  IF Truthy(ClosureTransport(t))
    THEN [reg EXCEPT ![newSessionId] = ClosureTransport(t)]
    ELSE reg

\* an onclose that forgets the delete
OnClose_NoDelete(reg, t) == reg

\* an onclose that resets the whole map
OnClose_Clear(reg, t) ==
  IF tSid[ClosureTransport(t)] # 0
    THEN [i \in Ids |-> NoTransport]
    ELSE reg

\* an onclose whose missing-identifier case wipes the map
OnClose_ClearIfNoId(reg, t) ==
  IF tSid[ClosureTransport(t)] # 0
    THEN [reg EXCEPT ![tSid[ClosureTransport(t)]] = NoTransport]
    ELSE [i \in Ids |-> NoTransport]

\* transport.onclose (server.ts:192-196)
OnClose(reg, t) ==
  IF tSid[ClosureTransport(t)] # 0
    THEN [reg EXCEPT ![tSid[ClosureTransport(t)]] = NoTransport]
    ELSE reg

\* ---- the router (server.ts:175-329) ----------------------------------------

\* a POST handler that constructs a transport for any header-less request
PostBranch_NoInitCheck(reg, sid, body) ==
  IF sid # NoHeader /\ Truthy(Lookup(reg, sid)) THEN "existing"
  ELSE IF sid = NoHeader THEN "create"
  ELSE "reject"

\* the if / else if / else of the POST handler (server.ts:180-290)
PostBranch(reg, sid, body) ==
  IF sid # NoHeader /\ Truthy(Lookup(reg, sid)) THEN "existing"
  ELSE IF sid = NoHeader /\ body = "init" THEN "create"
  ELSE "reject"

\* the guard of handleSessionRequest (server.ts:313): TRUE means reject
SessionGuard(reg, sid) ==
  sid = NoHeader \/ ~Truthy(Lookup(reg, sid))

PostReject == [status |-> 400, code |-> SessionErrorCode, kind |-> "json", sid |-> 0]
PostCatch_SessionCode == [status |-> 500, code |-> SessionErrorCode, kind |-> "json", sid |-> 0]
PostCatch == [status |-> 500, code |-> InternalErrorCode, kind |-> "json", sid |-> 0]
SessionReject == [status |-> 400, code |-> NoCode, kind |-> "text", sid |-> 0]
SessionCatch == [status |-> 500, code |-> NoCode, kind |-> "text", sid |-> 0]

CatchResp(method) == IF method = "POST" THEN PostCatch ELSE SessionCatch

\* ---- the transport, as the handlers observe it ---------------------------

\* what transport.handleRequest does with a request on instance t
TransportVerdict(t, rq) ==
  IF rq.method = "POST" /\ ~rq.accept THEN "notAcceptable"
  ELSE IF rq.method = "POST" /\ rq.body = "init"
    THEN (IF tInit[t] THEN "alreadyInitialized" ELSE "initialize")
  ELSE IF ~tInit[t] THEN "notInitialized"
  ELSE IF rq.header # tSid[t] THEN "sessionNotFound"
  ELSE IF rq.method = "DELETE" THEN "close"
  ELSE "ok"

TransportStatus(verdict) ==
  CASE verdict = "notAcceptable" -> 406
    [] verdict = "alreadyInitialized" -> 400
    [] verdict = "notInitialized" -> 400
    [] verdict = "sessionNotFound" -> 404
    [] OTHER -> 200

TransportResp(verdict, sid) ==
  [status |-> TransportStatus(verdict), code |-> NoCode, kind |-> "transport",
   sid |-> IF TransportStatus(verdict) = 200 THEN sid ELSE 0]

Bump(t) == [regCount EXCEPT ![t] = IF @ < 2 THEN @ + 1 ELSE @]

\* an exception reaches the catch block of the handler of request r
Caught(r, rq) ==
  /\ exc' = [exc EXCEPT ![r] = TRUE]
  /\ resp' = [resp EXCEPT ![r] = CatchResp(rq.method)]
  /\ pc' = [pc EXCEPT ![r] = "done"]

\* `await transport.handleRequest(...)` up to its first suspension
\* (server.ts:292 and 321), for the handler of request r holding value t
HandleRequest(r, t, rq) ==
  \/ \* t is not a transport: calling t.handleRequest throws a TypeError
     /\ t \notin Transports
     /\ Caught(r, rq)
     /\ UNCHANGED <<transports, tInit, tSid, tClosed, issued, regCount, forwarded>>
  \/ \* the transport throws
     /\ t \in Transports
     /\ forwarded' = forwarded \cup {t}
     /\ Caught(r, rq)
     /\ UNCHANGED <<transports, tInit, tSid, tClosed, issued, regCount>>
  \/ /\ t \in Transports
     /\ forwarded' = forwarded \cup {t}
     /\ pc' = [pc EXCEPT ![r] = "handling"]
     /\ UNCHANGED exc
     /\ LET v == TransportVerdict(t, rq) IN
        CASE v = "initialize" ->
               \E id \in RandomUUID :
                 /\ issued' = issued \cup {id}
                 /\ tSid' = [tSid EXCEPT ![t] = id]
                 /\ tInit' = [tInit EXCEPT ![t] = TRUE]
                 /\ transports' = OnSessionInitialized(transports, id, t)
                 /\ regCount' = IF Truthy(ClosureTransport(t))
                                  THEN Bump(ClosureTransport(t))
                                  ELSE regCount
                 /\ resp' = [resp EXCEPT ![r] = TransportResp(v, id)]
                 /\ UNCHANGED tClosed
          [] v = "close" ->
               /\ tClosed' = [tClosed EXCEPT ![t] = TRUE]
               /\ transports' = OnClose(transports, t)
               /\ resp' = [resp EXCEPT ![r] = TransportResp(v, 0)]
               /\ UNCHANGED <<tInit, tSid, issued, regCount>>
          [] OTHER ->
               /\ resp' = [resp EXCEPT ![r] = TransportResp(v, tSid[t])]
               /\ UNCHANGED <<transports, tInit, tSid, tClosed, issued, regCount>>

\* ---- the SaveMeeting tool: values (server.ts:32-168, 210-276) ----------------

\* A text is the sequence of its lines (email.split(/\r?\n/)); the empty
\* string is <<>>.  The lines a completion is made of:
Lines == {"Subject: Q3 Recap", "subject: q3", "Subject:", "Body text here", ""}

RawTexts == UNION {[1..n -> Lines] : n \in 0..MaxLines}

Saved == <<"saved">>

\* String.prototype.trim on a text: leading and trailing blank lines go
RECURSIVE TrimLeft(_)
TrimLeft(t) ==
  IF t = <<>> THEN <<>>
  ELSE IF Head(t) = "" THEN TrimLeft(Tail(t))
  ELSE t

RECURSIVE TrimRight(_)
TrimRight(t) ==
  IF t = <<>> THEN <<>>
  ELSE IF t[Len(t)] = "" THEN TrimRight(SubSeq(t, 1, Len(t) - 1))
  ELSE t

Trim(t) == TrimRight(TrimLeft(t))

\* firstLine.match(/^Subject:\s*(.*)$/i)  (server.ts:225)
IsSubjectLine(l) == l \in {"Subject: Q3 Recap", "subject: q3", "Subject:"}

\* match[1].trim()  (server.ts:227); <<>> is the empty string
SubjectCapture(l) ==
  CASE l = "Subject: Q3 Recap" -> <<"Q3 Recap">>
    [] l = "subject: q3" -> <<"q3">>
    [] OTHER -> <<>>

\* `Sales meeting recap: ${input.company}`  (server.ts:233)
DefaultSubject(company) == <<"Sales meeting recap: ", company>>

\* a split that leaves the subject line in the body
ParseDraft_KeepSubjectLine(email, company) ==
  LET matched == email # <<>> /\ IsSubjectLine(Head(email))
      captured == IF matched THEN SubjectCapture(Head(email)) ELSE <<>>
  IN [subject |-> IF captured = <<>> THEN DefaultSubject(company) ELSE captured,
      body |-> email]

\* the subject / body split of the handler (server.ts:219-234)
ParseDraft(email, company) ==
  LET matched == email # <<>> /\ IsSubjectLine(Head(email))
      captured == IF matched THEN SubjectCapture(Head(email)) ELSE <<>>
  IN [subject |-> IF captured = <<>> THEN DefaultSubject(company) ELSE captured,
      body |-> IF matched THEN Trim(Tail(email)) ELSE email]

\* a send that passes the body as it is
EmailText_NoFallback(body) == body

\* text: body || "saved"  (server.ts:242)
EmailText(body) == IF body = <<>> THEN Saved ELSE body

\* a return that passes the draft as it is
ResultText_NoFallback(email) == email

\* text: email || "saved"  (server.ts:256)
ResultText(email) == IF email = <<>> THEN Saved ELSE email

\* a field of the payload: absent, or present with a value
Absent == [present |-> FALSE, v |-> ""]
Text(v) == [present |-> TRUE, v |-> v]
NoList == [present |-> FALSE, v |-> <<>>]
List(v) == [present |-> TRUE, v |-> v]

\* payloads: the three z.string().min(1) fields, one z.string().optional()
\* field and one z.array(z.string().min(1)).optional() field
Payloads ==
  [company : {Absent, Text(""), Text("Acme")},
   summary : {Absent, Text(""), Text("Went well")},
   repName : {Absent, Text(""), Text("Ann")},
   budget : {Absent, Text("")},
   nextSteps : {NoList, List(<<>>), List(<<"">>)}]

Configs == [openaiApiKey : BOOLEAN, sendgridApiKey : BOOLEAN, sendgridFrom : BOOLEAN]

\* z.string().min(1, ...) on a field that is not optional
Required(f) == f.present /\ f.v # ""

\* z.array(z.string().min(1)).optional()
ListOk(f) == f.present => \A i \in 1..Len(f.v) : f.v[i] # ""

\* the fields a ZodError of SaveMeetingInputSchema.parse names (server.ts:32-55)
Issues(p) ==
  {f \in {"company", "summary", "repName"} : ~Required(p[f])}
    \cup (IF ListOk(p.nextSteps) THEN {} ELSE {"nextSteps"})

\* a schema without the repName line
Validate_NoRepName(p) == Issues(p) \ {"repName"} = {}

\* a schema whose summary is optional
Validate_SummaryOptional(p) == Issues(p) \ {"summary"} = {}

\* SaveMeetingInputSchema.parse(rawInput) returns (server.ts:211)
Validate(p) == Issues(p) = {}

\* a request function without the credential check
CallsCompletion_Always(c) == TRUE

\* requestOpenAIChat reaches its fetch (server.ts:85-92)
CallsCompletion(c) == c.openaiApiKey

\* a send function that checks the sender only
SendsEmail_FromOnly(c) == c.sendgridFrom

\* sendEmail reaches its fetch (server.ts:134-139)
SendsEmail(c) == c.sendgridApiKey /\ c.sendgridFrom

\* what the completion provider does with the one request: the fetch rejects,
\* the status is not ok, the body is no JSON, the JSON has no content, the
\* content is null, or the content is a text
CompletionOutcomes ==
  {[kind |-> k, raw |-> <<>>] : k \in {"network", "status", "badjson", "nocontent", "null"}}
    \cup {[kind |-> "content", raw |-> t] : t \in RawTexts}

NoOutcome == [kind |-> "none", raw |-> <<>>]

\* draftStakeholderEmailFromJson (server.ts:111-131) for outcome o of the fetch
DraftEmail(o) ==
  CASE o.kind = "content" -> Trim(o.raw)
    [] o.kind = "null" -> <<"null">>
    [] OTHER -> <<>>

DeliveryOutcomes == {"ok", "status", "network"}

NoSend == [called |-> FALSE, subject |-> <<>>, text |-> <<>>]
NoResult == [kind |-> "none", text |-> <<>>, fields |-> {}]

ToolOff ==
  [pc |-> "off", email |-> <<>>, subject |-> <<>>, body |-> <<>>,
   completion |-> "none", delivery |-> "none",
   completionCalls |-> 0, emailCalls |-> 0, sendArgs |-> NoSend,
   result |-> NoResult]

\* ---- initial state -------------------------------------------------------

SessionInit ==
  /\ transports = [i \in Ids |-> NoTransport]
  /\ tCreated = {}
  /\ tConnected = {}
  /\ tInit = [t \in Transports |-> FALSE]
  /\ tSid = [t \in Transports |-> 0]
  /\ tClosed = [t \in Transports |-> FALSE]
  /\ issued = {}
  /\ forwarded = {}
  /\ regCount = [t \in Transports |-> 0]
  /\ pc = [r \in Reqs |-> "idle"]
  /\ req = [r \in Reqs |-> NoReq]
  /\ resp = [r \in Reqs |-> NoResp]
  /\ rTransport = [r \in Reqs |-> NoTransport]
  /\ exc = [r \in Reqs |-> FALSE]

\* the server after start-up, no tool call under way
Init ==
  /\ SessionInit
  /\ cfg = [openaiApiKey |-> FALSE, sendgridApiKey |-> FALSE, sendgridFrom |-> FALSE]
  /\ rawInput = [company |-> Absent, summary |-> Absent, repName |-> Absent,
                 budget |-> Absent, nextSteps |-> NoList]
  /\ tool = ToolOff

\* header values a client can send: none, a string that was never a session
\* identifier, an inherited property name, or an identifier already handed out
ClientHeaders == {NoHeader, UnknownId, ProtoKey} \cup issued

\* every response already written has been delivered (Retire): a handler
\* segment runs once the finished handlers have left their slots
Delivered == \A q \in Reqs : pc[q] # "done"

\* the next request takes the lowest free slot
Free(r) ==
  /\ Delivered
  /\ pc[r] = "idle"
  /\ \A q \in Reqs : q < r => pc[q] # "idle"

\* room for one more instance and for the identifier it may ask for
CanCreate ==
  /\ Cardinality(tCreated) < MaxTransports
  /\ Cardinality(issued) + Cardinality({t \in tCreated : ~tInit[t] /\ ~tClosed[t]}) < MaxIds

\* ---- app.post("/mcp") (server.ts:175-305) ------------------------------------

\* from the start of the handler to its first await
PostBegin(r) ==
  /\ Free(r)
  /\ UNCHANGED toolVars
  /\ \E hdr \in ClientHeaders, body \in Bodies, acc \in BOOLEAN :
       \* the Accept header is enumerated where the transport's answer to it
       \* decides whether a session comes to exist
       /\ (acc \/ (hdr = NoHeader /\ body = "init"))
       /\ LET rq == [method |-> "POST", header |-> hdr, body |-> body, accept |-> acc]
              branch == PostBranch(transports, hdr, body)
          IN
          /\ req' = [req EXCEPT ![r] = rq]
          /\ CASE branch = "existing" ->
                    /\ rTransport' = [rTransport EXCEPT ![r] = Lookup(transports, hdr)]
                    /\ HandleRequest(r, Lookup(transports, hdr), rq)
                    /\ UNCHANGED <<tCreated, tConnected>>
               [] branch = "create" ->
                    /\ CanCreate
                    /\ LET t == Cardinality(tCreated) + 1 IN
                       /\ tCreated' = tCreated \cup {t}
                       /\ rTransport' = [rTransport EXCEPT ![r] = t]
                    /\ pc' = [pc EXCEPT ![r] = "connecting"]
                    /\ UNCHANGED <<transports, tConnected, tInit, tSid, tClosed,
                                   issued, forwarded, regCount, resp, exc>>
               [] OTHER ->
                    /\ resp' = [resp EXCEPT ![r] = PostReject]
                    /\ pc' = [pc EXCEPT ![r] = "done"]
                    /\ UNCHANGED <<transports, tvars, rTransport, exc>>

\* a handler that forwards to the new instance without connecting it
Connect_Skipped(conn, t) == conn

\* server.connect(transport) has completed for instance t (server.ts:279)
Connect(conn, t) == conn \cup {t}

\* `await server.connect(transport)` returns and handleRequest is called
\* (server.ts:279, 292)
PostConnected(r) ==
  /\ Delivered
  /\ UNCHANGED toolVars
  /\ pc[r] = "connecting"
  /\ tConnected' = Connect(tConnected, rTransport[r])
  /\ HandleRequest(r, rTransport[r], req[r])
  /\ UNCHANGED <<req, rTransport, tCreated>>

\* `await server.connect(transport)` throws (server.ts:279, 293-304)
PostConnectFailed(r) ==
  /\ Delivered
  /\ UNCHANGED toolVars
  /\ pc[r] = "connecting"
  /\ Caught(r, req[r])
  /\ UNCHANGED <<transports, tvars, req, rTransport>>

\* ---- handleSessionRequest: GET and DELETE (server.ts:307-329) -----------------

SessionBegin(r) ==
  /\ Free(r)
  /\ UNCHANGED toolVars
  /\ \E m \in {"GET", "DELETE"}, hdr \in ClientHeaders :
       LET rq == [method |-> m, header |-> hdr, body |-> "other", accept |-> TRUE] IN
       /\ req' = [req EXCEPT ![r] = rq]
       /\ UNCHANGED <<tCreated, tConnected>>
       /\ IF SessionGuard(transports, hdr)
            THEN /\ resp' = [resp EXCEPT ![r] = SessionReject]
                 /\ pc' = [pc EXCEPT ![r] = "done"]
                 /\ UNCHANGED <<transports, tInit, tSid, tClosed, issued,
                                forwarded, regCount, rTransport, exc>>
            ELSE /\ rTransport' = [rTransport EXCEPT ![r] = Lookup(transports, hdr)]
                 /\ HandleRequest(r, Lookup(transports, hdr), rq)

\* ---- completion of a delegated request ---------------------------------------

\* the promise of handleRequest resolves: the handler returns
Done(r) ==
  /\ Delivered
  /\ UNCHANGED toolVars
  /\ pc[r] = "handling"
  /\ pc' = [pc EXCEPT ![r] = "done"]
  /\ UNCHANGED <<transports, tvars, req, resp, rTransport, exc>>

\* the promise of handleRequest rejects: the catch block answers
\* (server.ts:293-304, 322-325)
Failed(r) ==
  /\ Delivered
  /\ UNCHANGED toolVars
  /\ pc[r] = "handling"
  /\ Caught(r, req[r])
  /\ UNCHANGED <<transports, tvars, req, rTransport>>

\* the response has been delivered; the slot serves the next request
Retire(r) ==
  /\ pc[r] = "done"
  /\ UNCHANGED toolVars
  /\ pc' = [pc EXCEPT ![r] = "idle"]
  /\ req' = [req EXCEPT ![r] = NoReq]
  /\ resp' = [resp EXCEPT ![r] = NoResp]
  /\ rTransport' = [rTransport EXCEPT ![r] = NoTransport]
  /\ exc' = [exc EXCEPT ![r] = FALSE]
  /\ UNCHANGED <<transports, tvars>>

\* ---- closure signalled by the transport itself ------------------------------

\* the instance calls its onclose (stream termination, protocol error); an
\* instance still inside the handler that constructed it has no stream yet
TransportClose(t) ==
  /\ Delivered
  /\ UNCHANGED toolVars
  /\ t \in tConnected
  /\ ~tClosed[t]
  /\ \A r \in Reqs : rTransport[r] = t => (tInit[t] \/ pc[r] = "done")
  /\ tClosed' = [tClosed EXCEPT ![t] = TRUE]
  /\ transports' = OnClose(transports, t)
  /\ UNCHANGED <<tCreated, tConnected, tInit, tSid, issued, forwarded,
                 regCount, pc, req, resp, rTransport, exc>>

Next ==
  \/ \E r \in Reqs : PostBegin(r)
  \/ \E r \in Reqs : PostConnected(r)
  \/ \E r \in Reqs : PostConnectFailed(r)
  \/ \E r \in Reqs : SessionBegin(r)
  \/ \E r \in Reqs : Done(r)
  \/ \E r \in Reqs : Failed(r)
  \/ \E r \in Reqs : Retire(r)
  \/ \E t \in Transports : TransportClose(t)

Spec == Init /\ [][Next]_vars

\* ---- the SaveMeeting handler (server.ts:210-276) --------------------------------

\* one call of the tool, for every configuration and payload
ToolInit ==
  /\ SessionInit
  /\ cfg \in Configs
  /\ rawInput \in Payloads
  /\ tool = [ToolOff EXCEPT !.pc = "called"]

\* parse the arguments, then call draftStakeholderEmailFromJson
\* (server.ts:211-216)
ToolInvoke ==
  /\ tool.pc = "called"
  /\ IF Validate(rawInput)
       THEN tool' = [tool EXCEPT !.pc = "drafting"]
       ELSE tool' = [tool EXCEPT !.pc = "threw",
                       !.result = [kind |-> "error", text |-> <<>>,
                                   fields |-> Issues(rawInput)]]
  /\ UNCHANGED <<sessVars, cfg, rawInput>>

\* the draft comes back; split it; call sendEmail or return
\* (server.ts:81-131, 216-259)
ToolDrafted ==
  /\ tool.pc = "drafting"
  /\ \E o \in IF CallsCompletion(cfg) THEN CompletionOutcomes ELSE {NoOutcome} :
       LET email == DraftEmail(o)
           parsed == ParseDraft(email, rawInput.company.v)
           drafted == [tool EXCEPT !.email = email,
                         !.subject = parsed.subject,
                         !.body = parsed.body,
                         !.completion = o.kind,
                         !.completionCalls = IF CallsCompletion(cfg) THEN 1 ELSE 0]
       IN
       IF cfg.sendgridFrom
         THEN tool' = [drafted EXCEPT !.pc = "sending",
                         !.sendArgs = [called |-> TRUE, subject |-> parsed.subject,
                                       text |-> EmailText(parsed.body)]]
         ELSE tool' = [drafted EXCEPT !.pc = "returned",
                         !.result = [kind |-> "success", text |-> ResultText(email),
                                     fields |-> {}]]
  /\ UNCHANGED <<sessVars, cfg, rawInput>>

\* sendEmail settles; its failure is logged; return (server.ts:133-168, 237-259)
ToolSent ==
  /\ tool.pc = "sending"
  /\ \E d \in IF SendsEmail(cfg) THEN DeliveryOutcomes ELSE {"none"} :
       tool' = [tool EXCEPT !.pc = "returned",
                  !.delivery = d,
                  !.emailCalls = IF SendsEmail(cfg) THEN 1 ELSE 0,
                  !.result = [kind |-> "success", text |-> ResultText(tool.email),
                              fields |-> {}]]
  /\ UNCHANGED <<sessVars, cfg, rawInput>>

ToolNext ==
  \/ ToolInvoke
  \/ ToolDrafted
  \/ ToolSent

ToolSpec == ToolInit /\ [][ToolNext]_vars

ToolTypeOK ==
  /\ cfg \in Configs
  /\ rawInput \in Payloads
  /\ tool.pc \in {"called", "drafting", "sending", "returned", "threw"}
  /\ tool.completionCalls \in 0..1
  /\ tool.emailCalls \in 0..1
  /\ tool.result.kind \in {"none", "success", "error"}

TypeOK ==
  /\ transports \in [Ids -> Transports \cup {NoTransport}]
  /\ tCreated \subseteq Transports
  /\ tConnected \subseteq tCreated
  /\ tInit \in [Transports -> BOOLEAN]
  /\ tSid \in [Transports -> Ids \cup {0}]
  /\ tClosed \in [Transports -> BOOLEAN]
  /\ issued \subseteq Ids
  /\ forwarded \subseteq tCreated
  /\ regCount \in [Transports -> 0..2]
  /\ pc \in [Reqs -> {"idle", "connecting", "handling", "done"}]
  /\ rTransport \in [Reqs -> Transports \cup {NoTransport, ProtoObject}]
  /\ exc \in [Reqs -> BOOLEAN]

\* ---- vocabulary of the properties ------------------------------------------

\* request r is a POST without session header whose body is an initializer
InitReq(r) ==
  req[r].method = "POST" /\ req[r].header = NoHeader /\ req[r].body = "init"

\* the handler of request r runs its first segment in this step
Begins(r) == pc[r] = "idle" /\ pc'[r] # "idle"

\* identifier h is a key of the registry
Registered(h) == h \in Ids /\ transports[h] # NoTransport

\* identifiers of the instances that have signalled closure
ClosedIds == {tSid[t] : t \in {u \in Transports : tClosed[u] /\ tSid[u] # 0}}

\* the transport answered request r with success
Accepted(r) == pc[r] = "done" /\ ~exc[r] /\ resp[r].status = 200

\* ---- C1 ---------------------------------------------------------------------

C1_Resolves ==
  \A r \in Reqs :
    (InitReq(r) /\ Accepted(r))
      => /\ resp[r].sid \in Ids
         /\ resp[r].sid = tSid[rTransport[r]]
         /\ (tClosed[rTransport[r]] \/ transports[resp[r].sid] = rTransport[r])

C1_Fresh ==
  \A r \in Reqs :
    (resp[r].sid = 0 /\ resp'[r].sid # 0 /\ req'[r].method = "POST"
       /\ req'[r].header = NoHeader /\ req'[r].body = "init")
      => /\ resp'[r].sid \notin issued
         /\ transports[resp'[r].sid] = NoTransport
         /\ resp'[r].sid \notin ClosedIds

IsSessionReject(rs) == rs = PostReject \/ rs = SessionReject

\* C2 as stated: a request of any method whose session header names an
\* identifier that is no key of the registry is answered with the invalid
\* session client error, constructs no transport and leaves the registry
\* unchanged.
C2_UnknownSessionRejected ==
  [][\A r \in Reqs :
       (Begins(r) /\ req'[r].header # NoHeader /\ ~Registered(req'[r].header))
         => /\ IsSessionReject(resp'[r])
            /\ tCreated' = tCreated
            /\ transports' = transports]_vars

\* ---- C3 ---------------------------------------------------------------------

C3_NotResolved ==
  \A id \in ClosedIds : transports[id] = NoTransport

C3_Step ==
  /\ \A t \in Transports : tClosed[t] => (tClosed'[t] /\ tSid'[t] = tSid[t])
  /\ \A r \in Reqs :
       (Begins(r) /\ req'[r].method = "DELETE" /\ req'[r].header \in ClosedIds)
         => (resp'[r] = SessionReject /\ pc'[r] = "done" /\ ~exc'[r])

\* C3: the identifier of a transport that has signalled closure is never a key
\* of the registry again, a closed transport stays closed, and a TERMINATE
\* naming such an identifier is answered with the plain 400 and throws nothing.
C3_ClosedNeverResolved == [](C3_NotResolved) /\ [][C3_Step]_vars

C3_Witness ==
  \E r \in Reqs :
    /\ req[r].method = "DELETE" /\ req[r].header \in ClosedIds
    /\ pc[r] = "done" /\ resp[r] = SessionReject
    /\ \E id \in Ids : Registered(id)

\* ---- C4 ---------------------------------------------------------------------

\* C4: two header-less initializer POSTs in flight together that the transport
\* accepts hold two distinct identifiers and two distinct transports, and each
\* identifier is registered to the transport of its own request (until that
\* transport closes).
C4_ConcurrentInitsDistinct ==
  \A r1, r2 \in Reqs :
    (r1 # r2 /\ InitReq(r1) /\ InitReq(r2)
       /\ pc[r1] \in {"handling", "done"} /\ pc[r2] \in {"handling", "done"}
       /\ resp[r1].status = 200 /\ resp[r2].status = 200)
      => /\ resp[r1].sid # resp[r2].sid
         /\ rTransport[r1] # rTransport[r2]
         /\ \A r \in {r1, r2} :
              /\ tSid[rTransport[r]] = resp[r].sid
              /\ (tClosed[rTransport[r]] \/ transports[resp[r].sid] = rTransport[r])

C4_Witness ==
  /\ InitReq(1) /\ InitReq(2)
  /\ pc[1] = "handling" /\ pc[2] = "handling"
  /\ resp[1].status = 200 /\ resp[2].status = 200
  /\ transports[resp[1].sid] = rTransport[1]
  /\ transports[resp[2].sid] = rTransport[2]
  /\ resp[2].sid < resp[1].sid

\* ---- C5 ---------------------------------------------------------------------

\* C5: no transport is registered under two identifiers and every registered
\* transport is a constructed instance that has not signalled closure.
C5_RegistryLiveAndInjective ==
  /\ \A id \in Ids :
       transports[id] # NoTransport
         => (transports[id] \in tCreated /\ ~tClosed[transports[id]])
  /\ \A i, j \in Ids :
       (i # j /\ transports[i] # NoTransport) => transports[i] # transports[j]

C5_Witness ==
  /\ \A id \in Ids : transports[id] # NoTransport
  /\ \E r \in Reqs : pc[r] = "handling" /\ req[r].method = "GET"

\* ---- C6 ---------------------------------------------------------------------

C6_Once ==
  \A t \in Transports :
    /\ regCount[t] <= 1
    /\ (regCount[t] = 1) <=> tInit[t]
    /\ regCount[t] = 1 => tSid[t] \in Ids
    /\ \A id \in Ids : transports[id] = t => (tInit[t] /\ tSid[t] = id)

C6_Step ==
  \A t \in Transports :
    regCount'[t] # regCount[t] => (~tInit[t] /\ tInit'[t] /\ tSid'[t] \in Ids)

\* C6: each transport is stored into the registry exactly once, in the step
\* in which its initialization completes and under the identifier it then
\* holds; a transport that never completes initialization is never stored.
C6_RegisteredExactlyOnce == [](C6_Once) /\ [][C6_Step]_vars

C6_Witness ==
  \E t, u \in Transports :
    /\ regCount[t] = 1 /\ tInit[t]
    /\ u \in tConnected /\ ~tInit[u] /\ regCount[u] = 0
    /\ \E r \in Reqs : rTransport[r] = u /\ pc[r] = "done"

\* ---- C7 ---------------------------------------------------------------------

\* C7: an entry of the registry changes only by being removed, and only in a
\* step in which the transport it holds signals closure.
C7_RemovedOnlyByClosure ==
  [][\A id \in Ids :
       (transports[id] # NoTransport /\ transports'[id] # transports[id])
         => /\ transports'[id] = NoTransport
            /\ ~tClosed[transports[id]]
            /\ tClosed'[transports[id]]]_vars

C7_Witness ==
  \E id \in Ids :
    /\ Registered(id)
    /\ \E r \in Reqs : req[r].header = id /\ exc[r] /\ pc[r] = "done"
    /\ \E r \in Reqs : req[r].method = "DELETE" /\ pc[r] = "handling"
                         /\ resp[r].status = 200

\* ---- C8 ---------------------------------------------------------------------

\* C8: a POST without session header whose body is no initializer is answered
\* 400 with code -32000, which is not the internal-failure code; it constructs
\* and connects no transport and the registry is unchanged.
C8_NonInitRejected ==
  [][\A r \in Reqs :
       (Begins(r) /\ req'[r].method = "POST" /\ req'[r].header = NoHeader
          /\ req'[r].body # "init")
         => /\ resp'[r].status = 400
            /\ resp'[r].kind = "json"
            /\ resp'[r].code = -32000
            /\ resp'[r].code # PostCatch.code
            /\ pc'[r] = "done"
            /\ rTransport'[r] = NoTransport
            /\ tCreated' = tCreated
            /\ tConnected' = tConnected
            /\ transports' = transports]_vars

C8_Witness ==
  \E r \in Reqs :
    /\ req[r].method = "POST" /\ req[r].header = NoHeader /\ req[r].body = "other"
    /\ pc[r] = "done" /\ resp[r] = PostReject
    /\ \E id \in Ids : Registered(id)

\* ---- C9 ---------------------------------------------------------------------

\* C9 as stated: a GET or DELETE whose session header is missing or names no
\* key of the registry is answered with the plain 400, is not delegated,
\* constructs no transport and leaves the registry unchanged.
C9_SessionHeaderMandatory ==
  [][\A r \in Reqs :
       (Begins(r) /\ req'[r].method \in {"GET", "DELETE"}
          /\ (req'[r].header = NoHeader \/ ~Registered(req'[r].header)))
         => /\ resp'[r] = SessionReject
            /\ rTransport'[r] = NoTransport
            /\ ~exc'[r]
            /\ tCreated' = tCreated
            /\ transports' = transports]_vars

\* ---- C10 --------------------------------------------------------------------

C10_Answered ==
  \A r \in Reqs :
    exc[r] =>
      /\ pc[r] = "done"
      /\ resp[r].status = 500
      /\ req[r].method = "POST" => (resp[r].kind = "json" /\ resp[r].code = -32001)
      /\ req[r].method # "POST" => (resp[r].kind = "text" /\ resp[r].code = NoCode)
      /\ ~IsSessionReject(resp[r])

C10_Step ==
  \A r \in Reqs :
    (~exc[r] /\ exc'[r])
      => /\ transports' = transports
         /\ tInit' = tInit /\ tSid' = tSid /\ tClosed' = tClosed
         /\ \A q \in Reqs : q # r => (pc'[q] = pc[q] /\ resp'[q] = resp[q])

ToolFinished == tool.pc \in {"returned", "threw"}

\* the completion provider failed: non-success status, or the fetch threw
CompletionFailed == tool.completion \in {"status", "network"}

\* the email provider failed: non-success status, or the fetch threw
DeliveryFailed == tool.delivery \in {"status", "network"}

\* ---- C11 --------------------------------------------------------------------

\* C11: a tool call whose payload passes validation never throws; once it is
\* over it has returned a success result with non-empty text; if the
\* completion provider failed that text is "saved"; and if the email provider
\* failed the text is what it is without that failure, the draft, or "saved"
\* for an empty draft.
C11_AlwaysSucceeds ==
  Validate(rawInput) =>
    /\ tool.pc # "threw"
    /\ tool.pc = "returned" =>
         /\ tool.result.kind = "success"
         /\ tool.result.text # <<>>
         /\ CompletionFailed => tool.result.text = <<"saved">>
         /\ DeliveryFailed =>
              tool.result.text = (IF tool.email = <<>> THEN <<"saved">> ELSE tool.email)

C11_Witness ==
  /\ Validate(rawInput)
  /\ tool.pc = "returned"
  /\ tool.completion = "status" /\ tool.completionCalls = 1
  /\ tool.delivery = "network" /\ tool.emailCalls = 1
  /\ tool.result = [kind |-> "success", text |-> <<"saved">>, fields |-> {}]

\* ---- C12 --------------------------------------------------------------------

\* C12: with the completion credential unset, a tool call with a valid payload
\* makes no outbound completion call and returns the text "saved".
C12_NoCredentialSaved ==
  (~cfg.openaiApiKey /\ Validate(rawInput)) =>
    /\ tool.completionCalls = 0
    /\ tool.completion \in {"none"}
    /\ tool.pc = "returned" =>
         (tool.result.kind = "success" /\ tool.result.text = <<"saved">>)

C12_Witness ==
  /\ ~cfg.openaiApiKey /\ cfg.sendgridApiKey /\ cfg.sendgridFrom
  /\ Validate(rawInput)
  /\ tool.pc = "returned"
  /\ tool.completionCalls = 0
  /\ tool.result.text = <<"saved">>

\* ---- C13 --------------------------------------------------------------------

\* C13: with the email credential or the sender address unset, a tool call
\* makes no outbound email call, and a call with a valid payload still returns
\* success with the draft, or "saved" for an empty draft.
C13_NoEmailWithoutConfig ==
  (~cfg.sendgridApiKey \/ ~cfg.sendgridFrom) =>
    /\ tool.emailCalls = 0
    /\ tool.delivery = "none"
    /\ (Validate(rawInput) /\ ToolFinished) =>
         /\ tool.result.kind = "success"
         /\ tool.result.text = (IF tool.email = <<>> THEN <<"saved">> ELSE tool.email)

C13_Witness ==
  /\ ~cfg.sendgridApiKey /\ cfg.sendgridFrom
  /\ tool.pc = "returned"
  /\ tool.sendArgs.called
  /\ tool.emailCalls = 0
  /\ tool.email # <<>>
  /\ tool.result.text = tool.email

\* ---- C14 --------------------------------------------------------------------

\* C14: a tool call whose payload violates the schema makes no outbound
\* completion call and no outbound email call, and ends by throwing an error
\* that names the offending fields, summary among them when it is missing or
\* empty, not by returning a result.
C14_InvalidRejectedFirst ==
  (~(rawInput.company.present /\ rawInput.company.v # "")
     \/ ~(rawInput.summary.present /\ rawInput.summary.v # "")
     \/ ~(rawInput.repName.present /\ rawInput.repName.v # "")
     \/ (rawInput.nextSteps.present /\ rawInput.nextSteps.v = <<"">>)) =>
    /\ tool.completionCalls = 0
    /\ tool.emailCalls = 0
    /\ ~tool.sendArgs.called
    /\ tool.pc \in {"called", "threw"}
    /\ tool.pc = "threw" =>
         /\ tool.result.kind = "error"
         /\ tool.result.fields # {}
         /\ ~(rawInput.summary.present /\ rawInput.summary.v # "")
              => "summary" \in tool.result.fields

C14_Witness ==
  /\ cfg.openaiApiKey /\ cfg.sendgridApiKey /\ cfg.sendgridFrom
  /\ rawInput.company = Text("Acme") /\ rawInput.repName = Text("Ann")
  /\ ~rawInput.summary.present
  /\ tool.pc = "threw"
  /\ tool.result.fields = {"summary"}
  /\ tool.completionCalls = 0 /\ tool.emailCalls = 0

\* ---- C15 --------------------------------------------------------------------

FieldOk(f) == rawInput[f].present /\ rawInput[f].v # ""

OptionalOk == ~rawInput.nextSteps.present \/ rawInput.nextSteps.v # <<"">>

ToolValidated == tool.pc \in {"threw", "drafting", "sending", "returned"}

\* C15 as stated: company and summary are the only mandatory top-level fields,
\* so a payload is rejected exactly when one of those two is missing or empty
\* or an optional field is malformed.
C15_Original ==
  ToolValidated =>
    (tool.pc = "threw" <=> ~(FieldOk("company") /\ FieldOk("summary") /\ OptionalOk))

\* C15: the payload has exactly three mandatory top-level fields, company,
\* summary and repName; every other top-level field is optional, so a payload
\* is rejected exactly when one of those three is missing or empty or an
\* optional field is malformed, and a payload with only a non-empty company,
\* summary and repName passes validation.
C15_ThreeMandatoryFields ==
  ToolValidated =>
    (tool.pc = "threw" <=>
       ~(FieldOk("company") /\ FieldOk("summary") /\ FieldOk("repName") /\ OptionalOk))

C15_Witness ==
  /\ rawInput = [company |-> Text("Acme"), summary |-> Text("Went well"),
                 repName |-> Text("Ann"), budget |-> Absent, nextSteps |-> NoList]
  /\ tool.pc = "returned"
  /\ tool.result.kind = "success"

\* ---- C16 --------------------------------------------------------------------

ToolParsed == tool.pc \in {"sending", "returned"} /\ tool.email # <<>>

SubjectWithText == IsSubjectLine(Head(tool.email)) /\ SubjectCapture(Head(tool.email)) # <<>>

SubjectWithoutText == IsSubjectLine(Head(tool.email)) /\ SubjectCapture(Head(tool.email)) = <<>>

SplitAtSubject ==
  tool.subject = SubjectCapture(Head(tool.email)) /\ tool.body = Trim(Tail(tool.email))

DefaultAndWhole ==
  tool.subject = DefaultSubject(rawInput.company.v) /\ tool.body = tool.email

\* C16 as stated: a draft is either split at its Subject line, the subject
\* being the text of that line, or it gets the default subject and is the body
\* unchanged; a Subject line without text is allowed either of the two.
C16_Original ==
  ToolParsed =>
    IF SubjectWithText THEN SplitAtSubject
    ELSE IF SubjectWithoutText THEN SplitAtSubject \/ DefaultAndWhole
    ELSE DefaultAndWhole

\* C16: for every non-empty drafted text: if its first line is a Subject line
\* (matched without regard to case) the body is the remaining lines, trimmed,
\* and the subject is the text of that line, or "Sales meeting recap: "
\* followed by the company when that text is empty; otherwise the subject is
\* "Sales meeting recap: " followed by the company and the body is the full
\* drafted text unchanged.
C16_SubjectBodySplit ==
  ToolParsed =>
    IF SubjectWithText THEN SplitAtSubject
    ELSE IF SubjectWithoutText
      THEN /\ tool.subject = DefaultSubject(rawInput.company.v)
           /\ tool.body = Trim(Tail(tool.email))
    ELSE DefaultAndWhole

C16_Witness ==
  /\ tool.pc = "returned"
  /\ tool.email = <<"Subject:", "Body text here">>
  /\ tool.subject = <<"Sales meeting recap: ", "Acme">>
  /\ tool.body = <<"Body text here">>

\* ---- C20 --------------------------------------------------------------------

\* C20: with the sender address configured, a tool call with a valid payload
\* reaches the email step whatever drafting gave, and the text handed to the
\* provider is never empty: it is the parsed body, or "saved" when the body is
\* empty, which happens for an empty draft and for a draft that is only a
\* Subject line; the subject is never empty either.
C20_EmailTextNeverEmpty ==
  (cfg.sendgridFrom /\ tool.pc \in {"sending", "returned"}) =>
    /\ tool.sendArgs.called
    /\ tool.sendArgs.text # <<>>
    /\ tool.sendArgs.text = (IF tool.body = <<>> THEN <<"saved">> ELSE tool.body)
    /\ tool.sendArgs.subject # <<>>
    /\ tool.sendArgs.subject = tool.subject
    /\ tool.email = <<>> => tool.body = <<>>
    /\ (tool.email # <<>> /\ Len(tool.email) = 1 /\ IsSubjectLine(Head(tool.email)))
         => tool.body = <<>>

C20_Witness ==
  /\ cfg.sendgridFrom
  /\ tool.pc = "returned"
  /\ tool.email = <<"Subject: Q3 Recap">>
  /\ tool.sendArgs.called
  /\ tool.sendArgs.subject = <<"Q3 Recap">>
  /\ tool.sendArgs.text = <<"saved">>

\* ---- C17 --------------------------------------------------------------------

C17_ConnectedFirst ==
  /\ forwarded \subseteq tConnected
  /\ \A t \in Transports : tInit[t] => t \in tConnected
  /\ \A r \in Reqs :
       (pc[r] = "handling" /\ rTransport[r] \in Transports)
         => rTransport[r] \in tConnected

C17_Step ==
  /\ \A r \in Reqs :
       (pc[r] = "connecting" /\ pc'[r] = "done" /\ rTransport[r] \notin tConnected')
         => /\ forwarded' = forwarded
            /\ resp'[r] = PostCatch
            /\ transports' = transports
  /\ \A t \in tCreated :
       (t \notin tConnected /\ \A r \in Reqs : ~(pc[r] = "connecting" /\ rTransport[r] = t))
         => (t \notin tConnected' /\ t \notin forwarded')

\* C17: handleRequest is called on a transport only once server.connect has
\* completed for it; when connect throws, the request is answered by the catch
\* block and its transport is never forwarded to, then or later.
C17_ConnectBeforeForward == [](C17_ConnectedFirst) /\ [][C17_Step]_vars

C17_Witness ==
  /\ \E t \in Transports : t \in forwarded /\ tInit[t]
  /\ \E r \in Reqs :
       /\ pc[r] = "done" /\ exc[r]
       /\ rTransport[r] \in tCreated \ tConnected
       /\ rTransport[r] \notin forwarded

\* ---- C18 --------------------------------------------------------------------

\* C18: in the step in which a transport signals closure, the registry is
\* unchanged when the transport holds no session identifier, and otherwise
\* differs from before in exactly the entry under that identifier, now absent.
C18_CloseRemovesOwnEntryOnly ==
  [][\A t \in Transports :
       (~tClosed[t] /\ tClosed'[t])
         => IF tSid[t] = 0
              THEN transports' = transports
              ELSE transports' = [transports EXCEPT ![tSid[t]] = NoTransport]]_vars

C18_Witness ==
  \E t \in Transports :
    /\ tClosed[t] /\ tSid[t] = 0
    /\ \E id \in Ids : Registered(id)

\* ---- C19 --------------------------------------------------------------------

C19_Keyed ==
  \A k \in Ids :
    transports[k] # NoTransport => tSid[transports[k]] = k

C19_Step ==
  \A t \in Transports :
    (~tClosed[t] /\ tClosed'[t])
      => \A k \in Ids :
           (transports[k] # NoTransport /\ transports[k] # t)
             => transports'[k] = transports[k]

\* C19: every entry of the registry is keyed by the session identifier of the
\* transport it holds, and the closure of a transport leaves the entries that
\* hold other transports as they were.
C19_KeyedBySessionId == [](C19_Keyed) /\ [][C19_Step]_vars

C19_Witness ==
  \E j, k \in Ids :
    /\ j # k
    /\ transports[j] # NoTransport /\ transports[k] # NoTransport
    /\ tSid[transports[j]] = j /\ tSid[transports[k]] = k
    /\ transports[j] # transports[k]

====
